---- MODULE Spec2Model ----
(***************************************************************************)
(* Model of Wata.modules.payment.PaymentModule (create, get_link_by_uuid,  *)
(* search_links) and of Wata.exceptions (ApiError and its subclasses).     *)
(*                                                                         *)
(* Each public coroutine has exactly one await.  It is modelled as two     *)
(* steps: the code before the await (normalisation, request construction,  *)
(* the call into the transport) and the code after it (the transport's     *)
(* answer: a parsed response or a raised exception, then logging and the   *)
(* return or the propagation).  The transport and the logger are external  *)
(* collaborators: the transport's answers are chosen nondeterministically, *)
(* the log is recorded per call.                                           *)
(***************************************************************************)
EXTENDS Integers, Sequences, FiniteSets, TLC

VARIABLES module, calls, wire

vars == <<module, calls, wire>>

(***************************************************************************)
(* Bounds of the exploration.                                              *)
(***************************************************************************)
MaxCalls == 2
MaxCoef == 12
MaxInt == 3
MaxFrac == 3
MaxListLen == 2

(***************************************************************************)
(* Python values.  Every value carries its type tag, so that isinstance,   *)
(* truthiness and "is not None" are decided as the interpreter decides.    *)
(***************************************************************************)
PyNone == [t |-> "NoneType"]
PyStr(s) == [t |-> "str", v |-> s]
PyInt(n) == [t |-> "int", v |-> n]
PyList(q) == [t |-> "list", v |-> q]
PyDict(f) == [t |-> "dict", v |-> f]
\* A float is identified by its shortest round-tripping decimal literal
\* (what repr prints): (-1)^sign * coef * 10^exp, coef without trailing zeros.
PyFloat(sign, coef, exp) == [t |-> "float", sign |-> sign, coef |-> coef, exp |-> exp]
\* decimal.Decimal: sign, integer coefficient, exponent.
PyDecimal(sign, coef, exp) == [t |-> "Decimal", sign |-> sign, coef |-> coef, exp |-> exp]
PyDatetime(y, mo, d, h, mi, s) ==
    [t |-> "datetime", year |-> y, month |-> mo, day |-> d,
     hour |-> h, minute |-> mi, second |-> s]

IsNone(x) == x.t = "NoneType"

\* bool(x) as Python evaluates it in "if x:".
Truthy(x) ==
    CASE x.t = "NoneType" -> FALSE
      [] x.t = "str" -> Len(x.v) > 0
      [] x.t = "int" -> x.v # 0
      [] x.t = "list" -> Len(x.v) > 0
      [] x.t = "dict" -> DOMAIN x.v # {}
      [] x.t \in {"float", "Decimal"} -> x.coef # 0
      [] OTHER -> TRUE

EmptyDict == <<>>

(***************************************************************************)
(* Decimal arithmetic used by the amount normalisation.                    *)
(***************************************************************************)
RECURSIVE Pow10(_)
Pow10(n) == IF n <= 0 THEN 1 ELSE 10 * Pow10(n - 1)

RECURSIVE Digits(_)
Digits(n) == IF n < 10 THEN 1 ELSE 1 + Digits(n \div 10)

\* Precision of the default decimal context, which quantize() uses.
DefaultPrec == 28

\* decimal.Decimal(str(x)) for an int or a float x.  str(int) is the plain
\* digit string.  str(float) is repr: positional notation with at least one
\* fractional digit ("10.0") when the decimal point position is within
\* (-4, 16], scientific notation ("1e+27") otherwise.
DecimalOfStr(x) ==
    IF x.t = "int"
    THEN PyDecimal(IF x.v < 0 THEN 1 ELSE 0, IF x.v < 0 THEN -x.v ELSE x.v, 0)
    ELSE IF x.exp >= 0 /\ Digits(x.coef) + x.exp <= 16
         THEN PyDecimal(x.sign, x.coef * Pow10(x.exp + 1), -1)
         ELSE PyDecimal(x.sign, x.coef, x.exp)

\* Variant: ROUND_HALF_EVEN (banker's rounding) in place of ROUND_HALF_UP.
RoundsUpHalfEven(coef, shift) ==
    \/ 2 * (coef % Pow10(shift)) > Pow10(shift)
    \/ /\ 2 * (coef % Pow10(shift)) = Pow10(shift)
       /\ (coef \div Pow10(shift)) % 2 = 1

\* ROUND_HALF_UP on the digits dropped by a rescale by `shift` places:
\* round away from zero iff the dropped part is at least one half.
RoundsUp(coef, shift) == 2 * (coef % Pow10(shift)) >= Pow10(shift)

\* Decimal._rescale(-2, ROUND_HALF_UP).
Rescale(d) ==
    IF d.exp >= -2
    THEN PyDecimal(d.sign, d.coef * Pow10(d.exp + 2), -2)
    ELSE LET shift == -2 - d.exp
             q == d.coef \div Pow10(shift)
         IN  PyDecimal(d.sign, IF RoundsUp(d.coef, shift) THEN q + 1 ELSE q, -2)

\* amount.quantize(Decimal('0.01'), rounding=ROUND_HALF_UP): InvalidOperation
\* when the result would need more than prec digits; zero is always rescaled.
Quantize(d) ==
    IF d.coef = 0
    THEN [ok |-> TRUE, v |-> PyDecimal(d.sign, 0, -2)]
    ELSE IF Digits(d.coef) + d.exp + 2 > DefaultPrec
         THEN [ok |-> FALSE, exc |-> "InvalidOperation"]
         ELSE LET r == Rescale(d)
              IN  IF Digits(r.coef) > DefaultPrec
                  THEN [ok |-> FALSE, exc |-> "InvalidOperation"]
                  ELSE [ok |-> TRUE, v |-> r]

RECURSIVE StripZeros(_, _)
StripZeros(coef, exp) ==
    IF coef # 0 /\ coef % 10 = 0 THEN StripZeros(coef \div 10, exp + 1)
    ELSE <<coef, exp>>

\* float(d) for a quantized Decimal d: the nearest double.  A decimal of at
\* most 15 significant digits survives the conversion, so the double is the
\* one whose shortest literal is d without its trailing zeros.
ToFloat(d) ==
    IF d.coef = 0 THEN PyFloat(d.sign, 0, 0)
    ELSE LET s == StripZeros(d.coef, d.exp) IN PyFloat(d.sign, s[1], s[2])

\* The amount normalisation written out at the three sites
\* (amount, amount_from, amount_to).
NormalizeAmount(amount) ==
    LET d == IF amount.t \in {"int", "float"} THEN DecimalOfStr(amount) ELSE amount
        q == Quantize(d)
    IN  IF q.ok THEN [ok |-> TRUE, v |-> ToFloat(q.v)] ELSE q

(***************************************************************************)
(* Wata.exceptions.  An exception object is its class, its identity and    *)
(* its instance attributes (the instance __dict__).                        *)
(***************************************************************************)
ApiErrorClasses == {"ApiError", "ApiTimeoutError", "ApiConnectionError"}

\* ApiError.__init__(status_code, message, response_data): the three
\* attributes it sets, and the text handed to Exception.__init__.
ApiErrorInit(cls, id, status_code, message, response_data) ==
    [t |-> "exception", cls |-> cls, id |-> id,
     attrs |-> [status_code |-> PyInt(status_code),
                message |-> PyStr(message),
                response_data |-> response_data],
     text |-> <<"API Error ", status_code, ": ", message>>]

TimeoutStatus == 408
ConnectionStatus == 0

ApiTimeoutErrorInit(id, message) ==
    ApiErrorInit("ApiTimeoutError", id, TimeoutStatus, message, PyNone)

ApiConnectionErrorInit(id, message) ==
    ApiErrorInit("ApiConnectionError", id, ConnectionStatus, message, PyNone)

\* Any other exception object (no attributes of interest).
OtherException(cls, id) ==
    [t |-> "exception", cls |-> cls, id |-> id, attrs |-> <<>>, text |-> <<>>]

\* An exception raised while another one is being handled keeps it
\* as its __context__.
RaisedWhileHandling(cls, id, handled) ==
    [t |-> "exception", cls |-> cls, id |-> id, attrs |-> <<>>, text |-> <<>>,
     context |-> handled]

\* setattr(e, name, value): the transport may attach further attributes
\* to the error it raises.
SetAttr(e, name, value) == [e EXCEPT !.attrs = (name :> value) @@ e.attrs]

HasAttr(e, name) == name \in DOMAIN e.attrs

\* "except ApiError as e" matches the class and its subclasses.
IsApiError(e) == e.cls \in ApiErrorClasses

NoExc == [t |-> "noexc"]

(***************************************************************************)
(* Logging collaborator: each call to self.logger.<level>(...) is recorded *)
(* as the level and the message template that was used.                    *)
(***************************************************************************)
LogEntry(level, msg) == [level |-> level, msg |-> msg]

(***************************************************************************)
(* Request construction.                                                   *)
(***************************************************************************)
\* Variant: an optional field enters the payload whenever it is not None.
IncludeIfNotNone(x) == ~IsNone(x)

\* "if description:" etc. in create: a field enters the payload iff truthy.
IncludeInPayload(x) == Truthy(x)

Opt(include, key, value) == IF include THEN key :> value ELSE EmptyDict

\* The data dict of create, given the normalised amount.
CreateData(amount, args) ==
    ("amount" :> amount) @@ ("currency" :> args.currency)
    @@ Opt(IncludeInPayload(args.description), "description", args.description)
    @@ Opt(IncludeInPayload(args.order_id), "orderId", args.order_id)
    @@ Opt(IncludeInPayload(args.success_redirect_url),
           "successRedirectUrl", args.success_redirect_url)
    @@ Opt(IncludeInPayload(args.fail_redirect_url),
           "failRedirectUrl", args.fail_redirect_url)

DigitStr == <<"0", "1", "2", "3", "4", "5", "6", "7", "8", "9">>

Pad2(n) == DigitStr[((n \div 10) % 10) + 1] \o DigitStr[(n % 10) + 1]

Pad4(n) == Pad2(n \div 100) \o Pad2(n % 100)

\* datetime.isoformat() of a naive datetime with microsecond 0.
IsoFormat(dt) ==
    Pad4(dt.year) \o "-" \o Pad2(dt.month) \o "-" \o Pad2(dt.day) \o "T"
    \o Pad2(dt.hour) \o ":" \o Pad2(dt.minute) \o ":" \o Pad2(dt.second)

\* Variant: the elements joined in reverse order.
RECURSIVE JoinReversed(_, _)
JoinReversed(sep, q) ==
    IF Len(q) = 0 THEN ""
    ELSE IF Len(q) = 1 THEN q[1]
    ELSE JoinReversed(sep, Tail(q)) \o sep \o q[1]

\* sep.join(q) for a list q of strings.
RECURSIVE Join(_, _)
Join(sep, q) ==
    IF Len(q) = 0 THEN ""
    ELSE IF Len(q) = 1 THEN q[1]
    ELSE q[1] \o sep \o Join(sep, Tail(q))

\* Variant: a parameter enters the query only when truthy, as in create.
IncludeIfTruthy(x) == Truthy(x)

\* "if x is not None:" in search_links: a parameter enters the query
\* iff it is not None.
IncludeInQuery(x) == ~IsNone(x)

TimeParam(x) == IF x.t = "datetime" THEN PyStr(IsoFormat(x)) ELSE x

CsvParam(x) == IF x.t = "list" THEN PyStr(Join(",", x.v)) ELSE x

\* Variant: one params dict kept across calls, so that a call starts from
\* the keys the previous search left in it.
SharedParams ==
    LET sent == {i \in DOMAIN wire : wire[i].kw = "params"}
    IN  IF sent = {} THEN EmptyDict
        ELSE wire[CHOOSE i \in sent : \A j \in sent : j <= i].payload

\* "params = {}": a fresh dict for every call.
NewParams == EmptyDict

\* The params dict of search_links, given the normalised amount bounds
\* (only used when the bound is not None).
SearchParams(from, to, args) ==
    (Opt(IncludeInQuery(args.amount_from), "amountFrom", from)
     @@ Opt(IncludeInQuery(args.amount_to), "amountTo", to)
     @@ Opt(IncludeInQuery(args.creation_time_from),
            "creationTimeFrom", TimeParam(args.creation_time_from))
     @@ Opt(IncludeInQuery(args.creation_time_to),
            "creationTimeTo", TimeParam(args.creation_time_to))
     @@ Opt(IncludeInQuery(args.order_id), "orderId", args.order_id)
     @@ Opt(IncludeInQuery(args.currencies), "currencies", CsvParam(args.currencies))
     @@ Opt(IncludeInQuery(args.statuses), "statuses", CsvParam(args.statuses))
     @@ Opt(IncludeInQuery(args.sorting), "sorting", args.sorting)
     @@ Opt(IncludeInQuery(args.skip_count), "skipCount", args.skip_count)
     @@ Opt(IncludeInQuery(args.max_result_count),
            "maxResultCount", args.max_result_count))
    @@ NewParams

(***************************************************************************)
(* Transport collaborator: the requests it was handed, in order, each with *)
(* the answer it gave (once it has).                                       *)
(***************************************************************************)
NoAnswer == [kind |-> "pending"]
Returns(value) == [kind |-> "return", value |-> value]
Raises(exc) == [kind |-> "raise", exc |-> exc]

Request(c, method, path, kw, payload) ==
    [call |-> c, method |-> method, path |-> path, kw |-> kw,
     payload |-> payload, answer |-> NoAnswer]

\* Variant: the request is issued a second time.
AwaitTwice(req) == <<req, req>>

\* "await self._http_client.<method>(...)": one request handed over.
Await(req) == <<req>>

\* The requests of call c that the transport has not answered yet.
Pending(c) == {i \in DOMAIN wire : wire[i].call = c /\ wire[i].answer = NoAnswer}

(***************************************************************************)
(* State of one invocation of a coroutine of the module.                   *)
(***************************************************************************)
CallIds == 1 .. MaxCalls

IdleCall ==
    [op |-> "none", args |-> <<>>, pc |-> "idle", log |-> <<>>,
     result |-> PyNone, exc |-> NoExc]

Started(op, args, log) ==
    [op |-> op, args |-> args, pc |-> "awaiting", log |-> log,
     result |-> PyNone, exc |-> NoExc]

Returned(call, value) == [call EXCEPT !.pc = "returned", !.result = value]

Raised(call, exc) == [call EXCEPT !.pc = "raised", !.exc = exc]

Logged(call, entry) == [call EXCEPT !.log = Append(@, entry)]

\* Identity of an exception object created by the transport for request i,
\* and of one created while call c runs the module's own code.
TransportExcId(i) == <<"transport", i>>
LocalExcId(c) == <<"payment", c>>

\* Invocations are numbered in the order in which the caller starts them.
CanStart(c) ==
    /\ calls[c].pc = "idle"
    /\ \A b \in CallIds : b < c => calls[b].pc # "idle"

\* PaymentModule.__init__: the logger of the base component and the
\* injected transport are the only attributes.
Constructed == [http_client |-> "http_client", logger |-> "wata_api.payment"]

Init ==
    /\ module = Constructed
    /\ calls = [c \in CallIds |-> IdleCall]
    /\ wire = <<>>

(***************************************************************************)
(* create                                                                  *)
(***************************************************************************)
CreateArgs(amount, currency, description, order_id, success_url, fail_url) ==
    [amount |-> amount, currency |-> currency, description |-> description,
     order_id |-> order_id, success_redirect_url |-> success_url,
     fail_redirect_url |-> fail_url]

\* create up to its await.
CreateStart(c, args) ==
    /\ CanStart(c)
    /\ LET n == NormalizeAmount(args.amount)
           call == Started("create", args, <<LogEntry("info", "create.start")>>)
       IN  IF n.ok
           THEN /\ calls' = [calls EXCEPT ![c] = call]
                /\ wire' = wire \o Await(Request(c, "POST", "api/h2h/links",
                                                 "data", CreateData(n.v, args)))
           ELSE /\ calls' = [calls EXCEPT ![c] =
                                Raised(call, OtherException(n.exc, LocalExcId(c)))]
                /\ wire' = wire
    /\ UNCHANGED module

\* The log category create selects from e.error_code.
CreateErrorCategory(code) ==
    IF code = PyStr("Payment:PL_1001") THEN "create.invalid_amount"
    ELSE IF code = PyStr("Payment:PL_1002") THEN "create.unsupported_currency"
    ELSE "create.error"

\* create from its await on: the transport answered `answer`.
CreateAfterAwait(call, c, answer) ==
    IF answer.kind = "return"
    THEN Returned(Logged(call, LogEntry("info", "create.ok")), answer.value)
    ELSE IF IsApiError(answer.exc)
         THEN IF HasAttr(answer.exc, "error_code")
              THEN Raised(Logged(call,
                          LogEntry("error",
                                   CreateErrorCategory(answer.exc.attrs.error_code))),
                          answer.exc)
              ELSE \* e.error_code: the attribute lookup fails in the handler
                   Raised(call, RaisedWhileHandling("AttributeError",
                                                    LocalExcId(c), answer.exc))
         ELSE Raised(call, answer.exc)

(***************************************************************************)
(* get_link_by_uuid                                                        *)
(***************************************************************************)
GetStart(c, uuid) ==
    /\ CanStart(c)
    /\ calls' = [calls EXCEPT ![c] =
                    Started("get_link_by_uuid", [uuid |-> uuid],
                            <<LogEntry("info", "get.start")>>)]
    /\ wire' = wire \o Await(Request(c, "GET", "api/h2h/links/" \o uuid.v,
                                     "none", EmptyDict))
    /\ UNCHANGED module

GetErrorCategory(code) ==
    IF code = PyStr("Payment:PL_1003") THEN "get.unavailable_or_paid"
    ELSE "get.error"

GetAfterAwait(call, c, answer) ==
    IF answer.kind = "return"
    THEN Returned(Logged(call, LogEntry("debug", "get.ok")), answer.value)
    ELSE IF IsApiError(answer.exc)
         THEN IF HasAttr(answer.exc, "error_code")
              THEN Raised(Logged(call,
                          LogEntry("error",
                                   GetErrorCategory(answer.exc.attrs.error_code))),
                          answer.exc)
              ELSE Raised(call, RaisedWhileHandling("AttributeError",
                                                    LocalExcId(c), answer.exc))
         ELSE Raised(call, answer.exc)

(***************************************************************************)
(* search_links                                                            *)
(***************************************************************************)
SearchArgs(af, at, tf, tt, oid, cur, st, so, sk, mx) ==
    [amount_from |-> af, amount_to |-> at,
     creation_time_from |-> tf, creation_time_to |-> tt,
     order_id |-> oid, currencies |-> cur, statuses |-> st,
     sorting |-> so, skip_count |-> sk, max_result_count |-> mx]

NoSearchArgs ==
    SearchArgs(PyNone, PyNone, PyNone, PyNone, PyNone,
               PyNone, PyNone, PyNone, PyNone, PyNone)

SearchStart(c, args) ==
    /\ CanStart(c)
    /\ LET from == IF IsNone(args.amount_from) THEN [ok |-> TRUE, v |-> PyNone]
                   ELSE NormalizeAmount(args.amount_from)
           to == IF IsNone(args.amount_to) THEN [ok |-> TRUE, v |-> PyNone]
                 ELSE NormalizeAmount(args.amount_to)
           log0 == <<LogEntry("info", "search.start")>>
       IN  IF ~from.ok \/ ~to.ok
           THEN /\ calls' = [calls EXCEPT ![c] =
                                Raised(Started("search_links", args, log0),
                                       OtherException("InvalidOperation",
                                                      LocalExcId(c)))]
                /\ wire' = wire
           ELSE /\ calls' = [calls EXCEPT ![c] =
                                Started("search_links", args,
                                        Append(log0, LogEntry("debug", "search.params")))]
                /\ wire' = wire \o Await(Request(c, "GET", "api/h2h/links/", "params",
                                                 SearchParams(from.v, to.v, args)))
    /\ UNCHANGED module

\* ("items" in result): membership as the result's type defines it;
\* None is not iterable.
Contains(result, key) ==
    CASE result.t = "dict" -> [ok |-> TRUE, v |-> key \in DOMAIN result.v]
      [] result.t = "list" ->
            [ok |-> TRUE, v |-> \E i \in DOMAIN result.v : result.v[i] = PyStr(key)]
      [] OTHER -> [ok |-> FALSE, exc |-> "TypeError"]

\* len(result['items']): subscripting by a string needs a mapping, and len
\* needs a sized value.
LenOfItem(result, key) ==
    IF result.t # "dict" THEN [ok |-> FALSE, exc |-> "TypeError"]
    ELSE LET x == result.v[key]
         IN  CASE x.t \in {"list", "str"} -> [ok |-> TRUE, v |-> Len(x.v)]
               [] x.t = "dict" -> [ok |-> TRUE, v |-> Cardinality(DOMAIN x.v)]
               [] OTHER -> [ok |-> FALSE, exc |-> "TypeError"]

SearchAfterAwait(call, c, answer) ==
    IF answer.kind = "return"
    THEN LET has == Contains(answer.value, "items")
         IN  IF ~has.ok
             THEN Raised(call, OtherException(has.exc, LocalExcId(c)))
             ELSE IF has.v
             THEN LET n == LenOfItem(answer.value, "items")
                  IN  IF n.ok
                      THEN Returned(Logged(call,
                                [level |-> "info", msg |-> "search.found",
                                 count |-> n.v]), answer.value)
                      ELSE Raised(call, OtherException(n.exc, LocalExcId(c)))
             ELSE Returned(Logged(call, LogEntry("warning", "search.no_items")),
                           answer.value)
    ELSE IF IsApiError(answer.exc)
         THEN Raised(Logged(call, LogEntry("error", "search.error")), answer.exc)
         ELSE Raised(call, answer.exc)

(***************************************************************************)
(* Resumption of a suspended call with the transport's answer.             *)
(***************************************************************************)
FirstPending(c) == CHOOSE j \in Pending(c) : \A k \in Pending(c) : j <= k

Resume(c, op, answer) ==
    /\ calls[c].pc = "awaiting"
    /\ calls[c].op = op
    /\ Pending(c) # {}
    /\ wire' = [wire EXCEPT ![FirstPending(c)].answer = answer]
    /\ calls' = [calls EXCEPT ![c] =
                    CASE op = "create" -> CreateAfterAwait(calls[c], c, answer)
                      [] op = "get_link_by_uuid" -> GetAfterAwait(calls[c], c, answer)
                      [] op = "search_links" -> SearchAfterAwait(calls[c], c, answer)]
    /\ UNCHANGED module

(***************************************************************************)
(* What the transport may answer to request i: a parsed response of any    *)
(* shape, an ApiError built by one of the constructors of Wata.exceptions  *)
(* (with or without an error_code attribute attached to it afterwards), or *)
(* any other exception.                                                    *)
(***************************************************************************)
LinkItem == PyDict(("id" :> PyStr("u1")) @@ ("status" :> PyStr("Opened")))

Responses ==
    { PyDict(("items" :> PyList(<<LinkItem>>)) @@ ("totalCount" :> PyInt(1))),
      PyDict("items" :> PyList(<<>>)),
      PyDict("items" :> PyNone),
      LinkItem,
      PyDict(EmptyDict),
      PyList(<<>>),
      PyNone }

ErrorCodes ==
    { PyNone, PyStr("Payment:PL_1001"), PyStr("Payment:PL_1002"),
      PyStr("Payment:PL_1003"), PyStr("Payment:PL_9999") }

ConstructedApiErrors(i) ==
    { ApiErrorInit("ApiError", TransportExcId(i), st, "Bad Request", PyNone) :
        st \in {400, 500} }
    \cup { ApiTimeoutErrorInit(TransportExcId(i), "timeout"),
           ApiConnectionErrorInit(TransportExcId(i), "connection error") }

ApiErrors(i) ==
    ConstructedApiErrors(i)
    \cup { SetAttr(e, "error_code", code) :
             e \in ConstructedApiErrors(i), code \in ErrorCodes }

OtherExceptions(i) ==
    { OtherException(cls, TransportExcId(i)) : cls \in {"JSONDecodeError", "OSError"} }

Answers(i) ==
    { Returns(r) : r \in Responses }
    \cup { Raises(e) : e \in ApiErrors(i) \cup OtherExceptions(i) }

AnswersSmall(i) ==
    { Returns(PyDict("items" :> PyList(<<>>))), Returns(LinkItem),
      Raises(SetAttr(ApiErrorInit("ApiError", TransportExcId(i), 400,
                                  "Bad Request", PyNone),
                     "error_code", PyStr("Payment:PL_1003"))),
      Raises(OtherException("OSError", TransportExcId(i))) }

(***************************************************************************)
(* Inputs.                                                                 *)
(***************************************************************************)
Signs == {0, 1}
Coefs == (0 .. MaxCoef) \cup {995, 1004, 1005, 9995, 10004, 10005, 10015}
Exps == (0 - MaxFrac) .. 1

\* An exponent at which quantize() exceeds the context precision.
HugeExp == DefaultPrec - 2

IntAmounts == { PyInt(n) : n \in (0 - MaxInt) .. MaxInt }

DecimalAmounts ==
    { PyDecimal(s, c, e) : s \in Signs, c \in Coefs, e \in Exps }
    \cup { PyDecimal(0, 1, HugeExp) }

\* Floats by their shortest literal: no trailing zero in the coefficient.
FloatAmounts ==
    { PyFloat(s, c, e) : s \in Signs, c \in { k \in Coefs : k % 10 # 0 }, e \in Exps }
    \cup { PyFloat(s, 0, 0) : s \in Signs }
    \cup { PyFloat(0, 1, HugeExp + 1) }

Amounts == IntAmounts \cup DecimalAmounts \cup FloatAmounts

AmountsFew ==
    { PyInt(10), PyFloat(0, 1001, -2), PyFloat(0, 10005, -3), PyFloat(0, 10004, -3),
      PyFloat(1, 10005, -3), PyDecimal(0, 1005, -3), PyDecimal(1, 15, -3),
      PyDecimal(0, 1, HugeExp) }

OptTexts(text) == { PyNone, PyStr(""), PyStr(text) }

RECURSIVE SeqsUpTo(_, _)
SeqsUpTo(S, n) ==
    IF n = 0 THEN { <<>> }
    ELSE LET shorter == SeqsUpTo(S, n - 1)
         IN  shorter \cup { Append(q, x) : q \in shorter, x \in S }

CsvInputs(S) ==
    { PyNone, PyStr("") } \cup { PyStr(x) : x \in S }
    \cup { PyList(q) : q \in SeqsUpTo(S, MaxListLen) }

TimeInputs ==
    { PyNone, PyStr("2024-01-01T00:00:00"), PyDatetime(2024, 5, 17, 9, 30, 0) }

SkipInputs == { PyNone, PyInt(0), PyInt(10) }
MaxResultInputs == { PyNone, PyInt(50) }

CreateInputsSmall ==
    { CreateArgs(a, PyStr("RUB"), d, PyNone, PyNone, PyNone) :
        a \in { PyFloat(0, 10005, -3), PyDecimal(0, 1, HugeExp) },
        d \in { PyNone, PyStr("Order") } }

UuidInputs == { PyStr("u1"), PyStr("u2") }

SearchInputsSmall ==
    { NoSearchArgs,
      [NoSearchArgs EXCEPT !.currencies = PyList(<<"RUB", "USD">>),
                           !.skip_count = PyInt(0)] }

(***************************************************************************)
(* Spec: up to MaxCalls invocations, started in any mix and suspended at   *)
(* their awaits together; the transport answers them in any order.         *)
(***************************************************************************)
DoCreate == \E c \in CallIds, args \in CreateInputsSmall : CreateStart(c, args)

DoGet == \E c \in CallIds, uuid \in UuidInputs : GetStart(c, uuid)

DoSearch == \E c \in CallIds, args \in SearchInputsSmall : SearchStart(c, args)

AnswerCreate ==
    \E c \in CallIds :
        /\ Pending(c) # {}
        /\ \E a \in AnswersSmall(FirstPending(c)) : Resume(c, "create", a)

AnswerGet ==
    \E c \in CallIds :
        /\ Pending(c) # {}
        /\ \E a \in AnswersSmall(FirstPending(c)) : Resume(c, "get_link_by_uuid", a)

AnswerSearch ==
    \E c \in CallIds :
        /\ Pending(c) # {}
        /\ \E a \in AnswersSmall(FirstPending(c)) : Resume(c, "search_links", a)

Next == DoCreate \/ DoGet \/ DoSearch \/ AnswerCreate \/ AnswerGet \/ AnswerSearch

Spec == Init /\ [][Next]_vars

(***************************************************************************)
(* SpecRequests: one invocation, its arguments drawn from the full input   *)
(* sets, answered by a well-formed response.                               *)
(***************************************************************************)
CreateWithAmount ==
    \E a \in Amounts :
        CreateStart(1, CreateArgs(a, PyStr("RUB"), PyNone, PyNone, PyNone, PyNone))

CreateWithFields ==
    \E a \in { PyInt(10), PyFloat(0, 10005, -3) }, cur \in { PyStr("RUB"), PyStr("") },
       d \in OptTexts("Order 1"), o \in OptTexts("ORD-1"),
       su \in OptTexts("https://shop/ok"), fu \in OptTexts("https://shop/fail") :
        CreateStart(1, CreateArgs(a, cur, d, o, su, fu))

SearchWithAmounts ==
    \E from \in AmountsFew \cup { PyNone }, to \in AmountsFew \cup { PyNone } :
        SearchStart(1, [NoSearchArgs EXCEPT !.amount_from = from, !.amount_to = to])

SearchWithFilters ==
    \E cur \in CsvInputs({"RUB", "USD"}), st \in CsvInputs({"Opened", "Closed"}),
       sk \in SkipInputs, mx \in MaxResultInputs :
        SearchStart(1, [NoSearchArgs EXCEPT !.currencies = cur, !.statuses = st,
                                            !.skip_count = sk,
                                            !.max_result_count = mx])

SearchWithOthers ==
    \E tf \in TimeInputs, tt \in TimeInputs, o \in OptTexts("ORD-1"),
       so \in OptTexts("amount desc"), sk \in SkipInputs,
       a \in { PyNone, PyFloat(0, 10005, -3) } :
        SearchStart(1, [NoSearchArgs EXCEPT !.creation_time_from = tf,
                                            !.creation_time_to = tt,
                                            !.order_id = o, !.sorting = so,
                                            !.skip_count = sk, !.amount_to = a])

AnswerOk ==
    \E op \in {"create", "search_links"} :
        Resume(1, op, Returns(PyDict("items" :> PyList(<<>>))))

NextRequests ==
    \/ CreateWithAmount
    \/ CreateWithFields
    \/ SearchWithAmounts
    \/ SearchWithFilters
    \/ SearchWithOthers
    \/ AnswerOk

SpecRequests == Init /\ [][NextRequests]_vars

(***************************************************************************)
(* SpecAnswers: one invocation, answered in every way the transport can.   *)
(***************************************************************************)
StartOne ==
    \/ \E args \in CreateInputsSmall : CreateStart(1, args)
    \/ \E uuid \in UuidInputs : GetStart(1, uuid)
    \/ \E args \in SearchInputsSmall : SearchStart(1, args)

AnswerOne ==
    /\ Pending(1) # {}
    /\ \E a \in Answers(FirstPending(1)) : Resume(1, calls[1].op, a)

NextAnswers == StartOne \/ AnswerOne

SpecAnswers == Init /\ [][NextAnswers]_vars

(***************************************************************************)
(* Vocabulary of the properties.                                           *)
(***************************************************************************)
EntriesOf(c) == {i \in DOMAIN wire : wire[i].call = c}

Abs(n) == IF n < 0 THEN 0 - n ELSE n

\* The value of an int, float or Decimal input, in units of 10^-MaxFrac.
ScaledValue(x) ==
    IF x.t = "int" THEN x.v * Pow10(MaxFrac)
    ELSE (IF x.sign = 1 THEN -1 ELSE 1) * x.coef * Pow10(x.exp + MaxFrac)

\* f is a float whose value is x rounded to hundredths, a tie going away
\* from zero: f is a whole number of hundredths, at most half a hundredth
\* from x, and on the far side of x from zero when exactly half away.
IsHalfUpOf(f, x) ==
    /\ f.t = "float"
    /\ f.exp >= -2
    /\ LET unit == Pow10(MaxFrac - 2)
           t == (IF f.sign = 1 THEN -1 ELSE 1) * f.coef * Pow10(f.exp + 2) * unit
           v == ScaledValue(x)
       IN  /\ 2 * Abs(v - t) <= unit
           /\ 2 * Abs(v - t) = unit => Abs(t) > Abs(v)

\* C2: the amount of every create request, and the amountFrom / amountTo of
\* every search request whose bound was given, is the caller's value
\* rounded to two fractional digits, halves away from zero, as a float.
C2_AmountsRoundedHalfUp ==
    \A i \in DOMAIN wire :
        LET r == wire[i]
            a == calls[r.call].args
        IN  /\ calls[r.call].op = "create" => IsHalfUpOf(r.payload["amount"], a.amount)
            /\ calls[r.call].op = "search_links" =>
                 /\ ~IsNone(a.amount_from) =>
                        IsHalfUpOf(r.payload["amountFrom"], a.amount_from)
                 /\ ~IsNone(a.amount_to) =>
                        IsHalfUpOf(r.payload["amountTo"], a.amount_to)

\* create(10.005, ...) was sent with amount 10.01.
C2_Witness ==
    \E i \in DOMAIN wire :
        /\ calls[wire[i].call].op = "create"
        /\ calls[wire[i].call].args.amount = PyFloat(0, 10005, -3)
        /\ wire[i].payload["amount"] = PyFloat(0, 1001, -2)

\* A non-empty string, the only truthy value an optional text can take.
NonEmptyStr(x) == x.t = "str" /\ x.v # ""

CreateOptionalKeys ==
    [description |-> "description", order_id |-> "orderId",
     success_redirect_url |-> "successRedirectUrl",
     fail_redirect_url |-> "failRedirectUrl"]

\* C3: the payload of every create request has the keys amount and
\* currency, plus the wire key of each optional argument that is a non-empty
\* string and of no other; currency and the optionals carry the caller's
\* values unchanged.
C3_CreatePayloadKeys ==
    \A i \in DOMAIN wire :
        calls[wire[i].call].op = "create" =>
            LET a == calls[wire[i].call].args
                data == wire[i].payload
                opts == DOMAIN CreateOptionalKeys
            IN  /\ wire[i].kw = "data"
                /\ DOMAIN data = {"amount", "currency"}
                       \cup { CreateOptionalKeys[f] : f \in { g \in opts : NonEmptyStr(a[g]) } }
                /\ data["currency"] = a.currency
                /\ \A f \in opts :
                       NonEmptyStr(a[f]) => data[CreateOptionalKeys[f]] = a[f]

\* A create request went out whose description was "" (left out), whose
\* order id was given (sent as orderId) and whose fail URL was None.
C3_Witness ==
    \E i \in DOMAIN wire :
        /\ calls[wire[i].call].op = "create"
        /\ calls[wire[i].call].args.description = PyStr("")
        /\ calls[wire[i].call].args.order_id = PyStr("ORD-1")
        /\ calls[wire[i].call].args.fail_redirect_url = PyNone
        /\ DOMAIN wire[i].payload = {"amount", "currency", "orderId"}

SearchKeys ==
    [amount_from |-> "amountFrom", amount_to |-> "amountTo",
     creation_time_from |-> "creationTimeFrom",
     creation_time_to |-> "creationTimeTo", order_id |-> "orderId",
     currencies |-> "currencies", statuses |-> "statuses", sorting |-> "sorting",
     skip_count |-> "skipCount", max_result_count |-> "maxResultCount"]

\* Absent or falsy: None or the empty string.
NoneOrEmptyStr(x) == IsNone(x) \/ (x.t = "str" /\ x.v = "")

\* C4 as stated: in every search request, a parameter that is None or the
\* empty string is not a key of the query, and a truthy parameter is there
\* under its documented key.
C4_FalsyNeverSent ==
    \A i \in DOMAIN wire :
        calls[wire[i].call].op = "search_links" =>
            \A f \in DOMAIN SearchKeys :
                LET x == calls[wire[i].call].args[f]
                IN  /\ NoneOrEmptyStr(x) => SearchKeys[f] \notin DOMAIN wire[i].payload
                    /\ Truthy(x) => SearchKeys[f] \in DOMAIN wire[i].payload

\* C4 amended: in every search request, the keys of the query are exactly
\* the documented keys of the parameters that are not None; an empty string,
\* a zero or an empty list is sent like any other value.
C4_NoneNeverSent ==
    \A i \in DOMAIN wire :
        calls[wire[i].call].op = "search_links" =>
            /\ wire[i].kw = "params"
            /\ DOMAIN wire[i].payload =
                   { SearchKeys[f] :
                       f \in { g \in DOMAIN SearchKeys :
                                 ~IsNone(calls[wire[i].call].args[g]) } }

\* A search went out with order_id "" (sent as orderId) and currencies None
\* (not sent).
C4_Witness ==
    \E i \in DOMAIN wire :
        /\ calls[wire[i].call].op = "search_links"
        /\ calls[wire[i].call].args.order_id = PyStr("")
        /\ IsNone(calls[wire[i].call].args.currencies)
        /\ "orderId" \in DOMAIN wire[i].payload
        /\ wire[i].payload["orderId"] = PyStr("")
        /\ "currencies" \notin DOMAIN wire[i].payload

\* The elements of q in order, a comma between neighbours.
RECURSIVE CommaSeparated(_)
CommaSeparated(q) ==
    IF q = <<>> THEN ""
    ELSE IF Len(q) = 1 THEN q[1]
    ELSE CommaSeparated(SubSeq(q, 1, Len(q) - 1)) \o "," \o q[Len(q)]

CsvSent(given, sent) ==
    /\ given.t = "list" => sent = PyStr(CommaSeparated(given.v))
    /\ given.t = "str" => sent = given

ScenarioArgs ==
    [NoSearchArgs EXCEPT !.currencies = PyList(<<"RUB", "USD">>),
                         !.statuses = PyStr("Opened"),
                         !.skip_count = PyInt(0),
                         !.max_result_count = PyInt(50)]

\* C6: in every search request, a currencies or statuses filter given as a
\* list is sent as its elements joined by commas in order, one given as a
\* string is sent unchanged, and the scenario's call produces exactly
\* {currencies: "RUB,USD", statuses: "Opened", skipCount: 0,
\* maxResultCount: 50}.
C6_ListsCommaJoined ==
    \A i \in DOMAIN wire :
        calls[wire[i].call].op = "search_links" =>
            LET a == calls[wire[i].call].args
                q == wire[i].payload
            IN  /\ ~IsNone(a.currencies) => CsvSent(a.currencies, q["currencies"])
                /\ ~IsNone(a.statuses) => CsvSent(a.statuses, q["statuses"])
                /\ a = ScenarioArgs =>
                     q = ("currencies" :> PyStr("RUB,USD"))
                         @@ ("statuses" :> PyStr("Opened"))
                         @@ ("skipCount" :> PyInt(0))
                         @@ ("maxResultCount" :> PyInt(50))

\* The scenario's search went out with currencies "RUB,USD".
C6_Witness ==
    \E i \in DOMAIN wire :
        /\ calls[wire[i].call].args = ScenarioArgs
        /\ wire[i].payload["currencies"] = PyStr("RUB,USD")
        /\ wire[i].payload["statuses"] = PyStr("Opened")

\* The method and path each operation addresses.
Endpoint(call) ==
    CASE call.op = "create" -> <<"POST", "api/h2h/links">>
      [] call.op = "get_link_by_uuid" -> <<"GET", "api/h2h/links/" \o call.args.uuid.v>>
      [] call.op = "search_links" -> <<"GET", "api/h2h/links/">>

\* The call raised before it came to its await (quantize() failed).
FailedBeforeAwait(call) ==
    /\ call.pc = "raised"
    /\ call.exc.cls = "InvalidOperation"

\* C5: a call that reached the transport has handed it exactly one request,
\* to the endpoint of its operation, and a call that did not has handed it
\* none; a call that returned returned what the transport answered to that
\* one request, so that two lookups of one identifier are two GETs, each
\* with its own answer.
C5_OneRequestPerCall ==
    \A c \in CallIds :
        IF calls[c].pc = "idle" \/ FailedBeforeAwait(calls[c])
        THEN EntriesOf(c) = {}
        ELSE /\ Cardinality(EntriesOf(c)) = 1
             /\ \A i \in EntriesOf(c) :
                    /\ <<wire[i].method, wire[i].path>> = Endpoint(calls[c])
                    /\ calls[c].pc = "awaiting" <=> wire[i].answer = NoAnswer
                    /\ calls[c].pc = "returned" =>
                           wire[i].answer = Returns(calls[c].result)

\* get_link_by_uuid was called twice with one identifier: two GETs went
\* out, they were answered differently, and each call returned its own.
C5_Witness ==
    /\ calls[1].op = "get_link_by_uuid" /\ calls[2].op = "get_link_by_uuid"
    /\ calls[1].args = calls[2].args
    /\ calls[1].pc = "returned" /\ calls[2].pc = "returned"
    /\ Len(wire) = 2
    /\ wire[1].path = wire[2].path
    /\ calls[1].result # calls[2].result

\* The request of call c is the one its own arguments determine.
OwnRequest(c, r) ==
    LET a == calls[c].args
    IN  /\ <<r.method, r.path>> = Endpoint(calls[c])
        /\ calls[c].op = "create" =>
             /\ DOMAIN r.payload = {"amount", "currency"}
                    \cup { CreateOptionalKeys[f] :
                             f \in { g \in DOMAIN CreateOptionalKeys : NonEmptyStr(a[g]) } }
             /\ IsHalfUpOf(r.payload["amount"], a.amount)
             /\ \A f \in DOMAIN CreateOptionalKeys :
                    NonEmptyStr(a[f]) => r.payload[CreateOptionalKeys[f]] = a[f]
        /\ calls[c].op = "get_link_by_uuid" => r.payload = EmptyDict
        /\ calls[c].op = "search_links" =>
             /\ DOMAIN r.payload =
                    { SearchKeys[f] : f \in { g \in DOMAIN SearchKeys : ~IsNone(a[g]) } }
             /\ ~IsNone(a.currencies) => CsvSent(a.currencies, r.payload["currencies"])
             /\ ~IsNone(a.skip_count) => r.payload["skipCount"] = a.skip_count

\* What call c yielded is the transport's answer to its own request, or an
\* exception raised by the module's code while c itself was running.
OwnOutcome(c) ==
    /\ calls[c].pc = "returned" =>
           \E i \in EntriesOf(c) : wire[i].answer = Returns(calls[c].result)
    /\ calls[c].pc = "raised" =>
           \/ calls[c].exc.id = LocalExcId(c)
           \/ \E i \in EntriesOf(c) : wire[i].answer = Raises(calls[c].exc)

\* Two calls of one operation with equal arguments sent equal requests and,
\* given equal responses, ended alike.
SameInSameOut(c, d) ==
    (calls[c].op = calls[d].op /\ calls[c].args = calls[d].args
     /\ calls[c].pc # "idle" /\ calls[d].pc # "idle") =>
        /\ { [wire[i] EXCEPT !.call = 0, !.answer = NoAnswer] : i \in EntriesOf(c) }
           = { [wire[i] EXCEPT !.call = 0, !.answer = NoAnswer] : i \in EntriesOf(d) }
        /\ \A i \in EntriesOf(c), j \in EntriesOf(d) :
               (wire[i].answer.kind = "return" /\ wire[i].answer = wire[j].answer) =>
                   /\ calls[c].pc = calls[d].pc
                   /\ calls[c].result = calls[d].result
                   /\ calls[c].log = calls[d].log

\* C8: however the calls interleave at their awaits, each call's request is
\* the one its own arguments determine, each call's result or error comes
\* from the answer to its own request, calls with equal inputs and equal
\* answers end alike, and the module's attributes are as constructed.
C8_CallsIndependent ==
    /\ module = Constructed
    /\ \A c \in CallIds :
           /\ \A i \in EntriesOf(c) : OwnRequest(c, wire[i])
           /\ OwnOutcome(c)
           /\ \A d \in CallIds : SameInSameOut(c, d)

\* Two searches with different arguments were in flight together, and the
\* one started later was answered first.
C8_Witness ==
    /\ calls[1].op = "search_links" /\ calls[2].op = "search_links"
    /\ calls[1].args # calls[2].args
    /\ calls[1].pc = "awaiting"
    /\ calls[2].pc = "returned"
    /\ Len(wire) = 2

ErrorEntries(log) == {k \in DOMAIN log : log[k].level = "error"}

\* C1: whenever the transport answered a call by raising an ApiError (of
\* any of the three classes, with an error code or without), the call
\* raised that same object, its attributes untouched.
C1_SameErrorReachesCaller ==
    \A i \in DOMAIN wire :
        (wire[i].answer.kind = "raise" /\ IsApiError(wire[i].answer.exc)) =>
            /\ calls[wire[i].call].pc = "raised"
            /\ calls[wire[i].call].exc = wire[i].answer.exc

\* C7: whenever the transport answered a call by raising any exception, the
\* call raised that exception, after logging an entry of level error, and
\* sent no second request.
C7_ErrorsLoggedThenPropagated ==
    \A i \in DOMAIN wire :
        wire[i].answer.kind = "raise" =>
            LET call == calls[wire[i].call]
            IN  /\ call.pc = "raised"
                /\ call.exc = wire[i].answer.exc
                /\ ErrorEntries(call.log) # {}
                /\ Cardinality(EntriesOf(wire[i].call)) = 1

\* The error code of an ApiError, None when it carries none.
CodeOf(e) == IF HasAttr(e, "error_code") THEN e.attrs.error_code ELSE PyNone

CategoryFor(op, code) ==
    CASE op = "create" /\ code = PyStr("Payment:PL_1001") -> "create.invalid_amount"
      [] op = "create" /\ code = PyStr("Payment:PL_1002") -> "create.unsupported_currency"
      [] op = "create" /\ code \notin {PyStr("Payment:PL_1001"), PyStr("Payment:PL_1002")}
            -> "create.error"
      [] op = "get_link_by_uuid" /\ code = PyStr("Payment:PL_1003")
            -> "get.unavailable_or_paid"
      [] op = "get_link_by_uuid" /\ code # PyStr("Payment:PL_1003") -> "get.error"

\* C9: whenever the transport answered a create or a get_link_by_uuid by
\* raising an ApiError, the call logged exactly one error entry, of the
\* category its error code selects (the generic one for any other code and
\* for none).
C9_OneCategoryByCode ==
    \A i \in DOMAIN wire :
        LET call == calls[wire[i].call]
        IN  (/\ call.op \in {"create", "get_link_by_uuid"}
             /\ wire[i].answer.kind = "raise"
             /\ IsApiError(wire[i].answer.exc)) =>
                /\ Cardinality(ErrorEntries(call.log)) = 1
                /\ \A k \in ErrorEntries(call.log) :
                       call.log[k].msg = CategoryFor(call.op, CodeOf(wire[i].answer.exc))

HasItems(r) == r.t = "dict" /\ "items" \in DOMAIN r.v

\* C10: whenever the transport answered a search with a response, of any
\* shape, the call returned that response; it logged the count when the
\* response has items and a warning when it has not.
C10_SearchResponseReturnedAsIs ==
    \A i \in DOMAIN wire :
        LET call == calls[wire[i].call]
        IN  (call.op = "search_links" /\ wire[i].answer.kind = "return") =>
                /\ call.pc = "returned"
                /\ call.result = wire[i].answer.value
                /\ LET last == call.log[Len(call.log)]
                   IN  IF HasItems(call.result)
                       THEN last.level = "info" /\ last.msg = "search.found"
                       ELSE last.level = "warning" /\ last.msg = "search.no_items"

====
